---- MODULE Spec2Model ----
(***************************************************************************)
(* Preview-lifecycle manager of the models grid                            *)
(* (src/hive-resources/js/models.js, src/hive-resources/js/preview3d.js).  *)
(*                                                                         *)
(* Spec       : the grid: renderGrid, the IntersectionObserver callback,   *)
(*              schedulePump / pumpVisiblePreviews, the RELOAD click       *)
(*              handler and the settlement of CardPreview.init promises.   *)
(* SpecHandle : one CardPreview object: constructor, init (with its two    *)
(*              await points) and destroy.                                 *)
(* SpecModal  : the ModalPreview object with openModal / closeModal.       *)
(* SpecQueue  : the queue-based viewer manager of                          *)
(*              src/hive-resources/js/hive-browser.js.                     *)
(***************************************************************************)
EXTENDS Integers, Sequences, FiniteSets, Bags, TLC

\* ------------------------------------------------------------------------
\* Bounds
\* ------------------------------------------------------------------------

\* Number of cards one renderGrid call builds.
NCards == 2

\* CardPreview objects that exist at once (live, or destroyed with their
\* load still in flight).
MaxHandles == 2

\* The cap on live card previews.  models.js:6 sets 12; the grid is checked
\* with a scaled-down cap so that "more visible cards than the cap" happens
\* with NCards cards.
MAX_ACTIVE_CARD_PREVIEWS == 1

\* The cap with which a single pump pass is checked on its own (SpecPass),
\* so that one pass admits more than one card.
PassCap == 2

\* Meshes in a loaded glTF scene, and distinct geometries / materials /
\* textures they may reference.
MaxMeshes == 2
NRes == 2

\* Calls of destroy on one object that are told apart (further calls count
\* as the MaxCalls-th).
MaxCalls == 2

\* Distinct model URLs the modal is opened with, and calls of openModal.
NUrls == 2
MaxOpens == 3

\* hive-browser.js: items in the filtered list, items per addBatch call
\* (hive-browser.js:207 sets 36), the cap on active viewers
\* (hive-browser.js:13 sets 12) and calls of renderGrid; scaled down so that
\* a second batch and a job at the cap happen with NItems items.
NItems == 3
BATCH == 2
MAX_ACTIVE_VIEWERS == 2
MaxRenders == 2

Cards == 1..NCards
Res == 1..NRes
Urls == 1..NUrls
Items == 1..NItems

\* ------------------------------------------------------------------------
\* State
\* ------------------------------------------------------------------------
VARIABLES
    io,             \* the IntersectionObserver: "null" before the first
                    \* renderGrid, "new" until it delivers its first
                    \* entries, then "active"
    previewByCard,  \* keys of the Map card -> CardPreview, insertion order
    visibleCards,   \* Set of cards, in insertion order
    pumpRaf,        \* pumpRaf is non-zero (holds a requestAnimationFrame id)
    rafQueue,       \* pump callbacks handed to requestAnimationFrame and
                    \* not yet run
    cards,          \* DOM state of each card of the current generation
    handles,        \* bag of the CardPreview objects with their init() promise
    created,        \* cards for which the last step ran new CardPreview()
    cp,             \* SpecHandle: the fields of one CardPreview object
    released,       \* SpecHandle: how often each resource was released
    threw,          \* SpecHandle: a call on the object threw
    destroyCalls,   \* SpecHandle: calls of destroy so far, up to MaxCalls
    mp,             \* SpecModal: the fields of the ModalPreview object
    mloads,         \* SpecModal: open() calls waiting for loadGltfFromUrl
    mopens,         \* SpecModal: calls of openModal so far
    els,            \* SpecModal: the modal element and els.modalLoading
    renderToken,    \* SpecQueue: renderToken
    observed,       \* SpecQueue: cards in the grid whose thumb io observes
    batches,        \* SpecQueue: addBatch callbacks not yet run
    activeViewers,  \* SpecQueue: keys of the Map cardId -> viewer, in
                    \* insertion order
    viewerQueue,    \* SpecQueue: the jobs of viewerQueue, first to last
    pumping,        \* SpecQueue: pumping
    loops,          \* SpecQueue: bag of the await points at which calls of
                    \* pumpQueue are suspended
    mvDefined       \* SpecQueue: customElements.get("model-viewer") is set

handleVars == <<cp, released, threw, destroyCalls>>

modalVars == <<mp, mloads, mopens, els>>

queueVars == <<renderToken, observed, batches, activeViewers, viewerQueue,
               pumping, loops, mvDefined>>

gridVars == <<io, previewByCard, visibleCards, pumpRaf, rafQueue, cards,
              handles, created>>

\* A card as renderGrid builds it: dataset.failed unset, empty placeholder
\* with no inline display, RELOAD hidden, no dot loader running.
NewCard == [failed |-> FALSE, phDisplay |-> "", phText |-> "",
            reload |-> "none", phStop |-> FALSE]

\* new CardPreview(viewer) followed by previewByCard.set(card, preview) and
\* preview.init(url).
\*   card     the card whose viewer, placeholder and RELOAD button the
\*            promise handlers captured (0 once that card is detached)
\*   live     the object is the value stored under its card in previewByCard
\*   via      the call site whose handlers wait on the init() promise
\*            ("none" once the promise has settled and they have run)
\*   disposed this._disposed
\*   by       the code path that called destroy() first
\*   st       the init() promise: "pending", "ready" (resolved with the
\*            scene attached) or "rejected"
NewHandle(card, via) ==
    [card |-> card, live |-> TRUE, stale |-> FALSE, via |-> via,
     disposed |-> FALSE, by |-> "", st |-> "pending"]

\* ------------------------------------------------------------------------
\* Helpers on insertion-ordered Map keys / Set, and on the bag of objects
\* ------------------------------------------------------------------------
RECURSIVE SeqWithout(_, _)
SeqWithout(s, x) ==
    IF s = <<>> THEN <<>>
    ELSE IF Head(s) = x THEN SeqWithout(Tail(s), x)
    ELSE <<Head(s)>> \o SeqWithout(Tail(s), x)

SeqHas(s, x) == \E i \in 1..Len(s) : s[i] = x

\* Set.prototype.add: appends unless present.
SetAdd(s, x) == IF SeqHas(s, x) THEN s ELSE Append(s, x)

\* Set.prototype.delete / Map.prototype.delete
SetDelete(s, x) == SeqWithout(s, x)

\* Map.prototype.set on the key sequence: a present key keeps its place.
MapSetKey(m, c) == IF SeqHas(m, c) THEN m ELSE Append(m, c)

One(r) == SetToBag({r})

\* The CardPreview stored under key c.
IsValueOf(r, c) == r.live /\ ~r.stale /\ r.card = c
ValueOf(hs, c) == CHOOSE r \in BagToSet(hs) : IsValueOf(r, c)

\* A CardPreview object is dropped from the state once nothing can reach it
\* any more: it was destroyed and its init() promise has settled.
Reachable(r) == ~(r.disposed /\ r.st # "pending")

\* CardPreview.destroy(true) as the grid sees it: this._disposed = true.
Destroy(r, who) ==
    [r EXCEPT !.disposed = TRUE, !.by = IF r.disposed THEN r.by ELSE who]

\* The object stops being a value of previewByCard (delete / clear).
Unmap(r) == [r EXCEPT !.live = FALSE]

Replace(hs, r, d) ==
    (hs (-) One(r)) (+) (IF Reachable(d) THEN One(d) ELSE EmptyBag)

Count(hs) == BagCardinality(hs)

\* ------------------------------------------------------------------------
\* schedulePump()                                      models.js:413-419
\* ------------------------------------------------------------------------
\* if (pumpRaf) return; pumpRaf = requestAnimationFrame(...): the value of
\* pumpRaf after the call ...
SchedulePump(raf) == IF raf THEN raf ELSE TRUE

QueuePumpAlways(raf, q) == q + 1

\* ... and the callbacks queued after the call.
QueuePump(raf, q) == IF raf THEN q ELSE q + 1

\* ------------------------------------------------------------------------
\* renderGrid(items)                                   models.js:255-411
\* ------------------------------------------------------------------------

RenderTeardownNoDestroy(r) ==
    IF r.live /\ ~r.stale THEN Unmap(r) ELSE r

\* for (const preview of previewByCard.values()) preview.destroy(true);
\* previewByCard.clear()
RenderTeardown(r) ==
    IF r.live /\ ~r.stale THEN Unmap(Destroy(r, "render")) ELSE r

\* Pending loads that keep acting on the cards of the grid.
DetachKeepsCard(r) == r

\* The cards of the previous generation are detached from the document:
\* closures of their pending loads keep the old card objects, which are no
\* longer cards of the grid.  Which card it was no longer matters.
Detach(r) == [r EXCEPT !.stale = TRUE, !.card = 0]

RenderHandles(hs) ==
    LET torn == BagOfAll(RenderTeardown, hs)
        kept == {r \in BagToSet(torn) : Reachable(r)}
    IN  BagOfAll(Detach, [r \in kept |-> torn[r]])

RenderGrid ==
    /\ io' = "new"
    /\ handles' = RenderHandles(handles)
    /\ previewByCard' = <<>>
    /\ visibleCards' = <<>>
    /\ cards' = [c \in Cards |-> NewCard]
    /\ created' = {}
    /\ UNCHANGED <<pumpRaf, rafQueue>>
    /\ UNCHANGED <<handleVars, modalVars, queueVars>>

\* ------------------------------------------------------------------------
\* IntersectionObserver callback                       models.js:373-408
\* ------------------------------------------------------------------------

\* What the callback reads and writes.
IoState(vis, m, hs, cs, raf, q) ==
    [vis |-> vis, pbc |-> m, hs |-> hs, cs |-> cs, raf |-> raf, q |-> q]

\* The else branch, forgetting the failure of a card that leaves.
LeaveCardForgets(cd) ==
    [cd EXCEPT !.failed = FALSE, !.phStop = FALSE, !.phDisplay = "flex",
               !.phText = "", !.reload = "none"]

\* The else branch, leaving the placeholder text as it is.
LeaveCardKeepsText(cd) ==
    [cd EXCEPT !.phStop = FALSE,
               !.phDisplay = "flex",
               !.reload = IF cd.failed THEN "inline-flex" ELSE "none"]

\* else branch: placeholder and RELOAD button of a card outside the region.
LeaveCard(cd) ==
    [cd EXCEPT !.phStop = FALSE,
               !.phDisplay = "flex",
               !.phText = IF cd.failed THEN "PREVIEW FAILED" ELSE "",
               !.reload = IF cd.failed THEN "inline-flex" ELSE "none"]

LeaveHandlesNoDestroy(hs, m, c) ==
    IF SeqHas(m, c)
    THEN LET r == ValueOf(hs, c) IN Replace(hs, r, Unmap(r))
    ELSE hs

\* const prev = previewByCard.get(card);
\* if (prev) { prev.destroy(true); previewByCard.delete(card); }
LeaveHandles(hs, m, c) ==
    IF SeqHas(m, c)
    THEN LET r == ValueOf(hs, c) IN Replace(hs, r, Unmap(Destroy(r, "leave")))
    ELSE hs

LeaveMapKeeps(m, c) == m

LeaveMap(m, c) == IF SeqHas(m, c) THEN SetDelete(m, c) ELSE m

\* The enter branch, also putting the card back to the way it was built.
\* The if branch without its schedulePump().
EnterEntryNoPump(st, c) ==
    [st EXCEPT !.vis = SetAdd(st.vis, c)]

EnterEntryResetsCard(st, c) ==
    [st EXCEPT !.vis = SetAdd(st.vis, c), !.raf = SchedulePump(st.raf),
               !.q = QueuePump(st.raf, st.q), !.cs[c] = NewCard]

\* if (e.isIntersecting) { visibleCards.add(card); schedulePump(); }
EnterEntry(st, c) ==
    [st EXCEPT !.vis = SetAdd(st.vis, c), !.raf = SchedulePump(st.raf),
               !.q = QueuePump(st.raf, st.q)]

\* The else branch without its closing schedulePump().
LeaveEntryNoPump(st, c) ==
    [st EXCEPT !.vis = SetDelete(st.vis, c),
               !.hs = LeaveHandles(st.hs, st.pbc, c),
               !.pbc = LeaveMap(st.pbc, c),
               !.cs[c] = LeaveCard(@),
               !.raf = st.raf, !.q = st.q]

\* else { visibleCards.delete(card); ...; schedulePump(); }
LeaveEntry(st, c) ==
    [st EXCEPT !.vis = SetDelete(st.vis, c),
               !.hs = LeaveHandles(st.hs, st.pbc, c),
               !.pbc = LeaveMap(st.pbc, c),
               !.cs[c] = LeaveCard(@),
               !.raf = SchedulePump(st.raf),
               !.q = QueuePump(st.raf, st.q)]

\* for (const e of entries): one entry per card from card c on, in document
\* order (the order of the io.observe calls), intersecting for the cards of S.
RECURSIVE Entries(_, _, _)
Entries(st, S, c) ==
    IF c > NCards THEN st
    ELSE Entries(IF c \in S THEN EnterEntry(st, c) ELSE LeaveEntry(st, c), S, c + 1)

IoApply(st) ==
    /\ visibleCards' = st.vis
    /\ previewByCard' = st.pbc
    /\ handles' = st.hs
    /\ cards' = st.cs
    /\ pumpRaf' = st.raf
    /\ rafQueue' = st.q
    /\ created' = {}
    /\ UNCHANGED <<handleVars, modalVars, queueVars>>

Now == IoState(visibleCards, previewByCard, handles, cards, pumpRaf, rafQueue)

\* The first callback of a new observer carries one entry for every observed
\* card: isIntersecting for the cards of S, not intersecting for the others.
FirstEntries(S) ==
    /\ io = "new"
    /\ io' = "active"
    /\ IoApply(Entries(Now, S, 1))

\* A later callback reports a change: card c came into the region.  (A
\* callback with several entries acts as the callbacks of its entries in
\* sequence.)
Enter(c) ==
    /\ io = "active"
    /\ ~SeqHas(visibleCards, c)
    /\ IoApply(EnterEntry(Now, c))
    /\ UNCHANGED io

\* A later callback reports a change: card c left the region.
Leave(c) ==
    /\ io = "active"
    /\ SeqHas(visibleCards, c)
    /\ IoApply(LeaveEntry(Now, c))
    /\ UNCHANGED io

\* ------------------------------------------------------------------------
\* pumpVisiblePreviews()                               models.js:421-477
\* ------------------------------------------------------------------------

\* The loop state: the Map keys, the CardPreview objects, the cards, the
\* cards admitted so far, and whether the pass needed more CardPreview
\* objects than the model provides.
\*   cap      the value of MAX_ACTIVE_CARD_PREVIEWS
\*   fails    the cards for which init() fails before its first await
\*            (makeRenderer throws without a WebGL context)
\*   aborted  an exception left the loop
PumpState(m, hs, cs) ==
    [pbc |-> m, hs |-> hs, cs |-> cs, admitted |-> {}, overflow |-> FALSE,
     cap |-> MAX_ACTIVE_CARD_PREVIEWS, fails |-> {}, aborted |-> FALSE]

\* for (const [c, prev] of previewByCard) { if (visibleCards.has(c))
\* continue; prev.destroy(true); previewByCard.delete(c); break; }
EvictOne(st) ==
    LET idx == {i \in 1..Len(st.pbc) : ~SeqHas(visibleCards, st.pbc[i])}
    IN  IF idx = {} THEN st
        ELSE LET i == CHOOSE i \in idx : \A j \in idx : i <= j
                 r == ValueOf(st.hs, st.pbc[i])
             IN  [st EXCEPT !.hs = Replace(st.hs, r, Unmap(Destroy(r, "evict"))),
                            !.pbc = SetDelete(st.pbc, st.pbc[i])]

\* Placeholder of a card being admitted: RELOAD hidden, dot loader started.
AdmitCard(cd) ==
    [cd EXCEPT !.reload = "none", !.phDisplay = "flex",
               !.phStop = TRUE, !.phText = "LOADING"]

\* A call of init() as a plain function: a failure before the first await
\* is thrown at the caller.
InitCallPlain(failsSync) == IF failsSync THEN "throw" ELSE "promise"

\* A call of init(): an async function returns a promise whatever happens
\* in its body.
InitCall(failsSync) == "promise"

\* The CardPreview after preview.init(modelUrl).then(...).catch(...): its
\* promise is pending, or already rejected ("failing": the .catch handler
\* has not run yet) when init() failed before its first await.
Started(card, failsSync) ==
    [NewHandle(card, "pump") EXCEPT !.st = IF failsSync THEN "failing" ELSE "pending"]

\* new CardPreview(viewer); previewByCard.set(card, preview); preview.init()
\* When the call throws, no handler is attached and the exception leaves
\* the loop.
Admit(st, card) ==
    IF Count(st.hs) >= MaxHandles THEN [st EXCEPT !.overflow = TRUE]
    ELSE IF InitCall(card \in st.fails) = "throw"
    THEN [st EXCEPT !.cs[card] = AdmitCard(@),
                    !.hs = @ (+) One([NewHandle(card, "none") EXCEPT !.st = "rejected"]),
                    !.pbc = MapSetKey(@, card),
                    !.admitted = @ \cup {card},
                    !.aborted = TRUE]
    ELSE [st EXCEPT !.cs[card] = AdmitCard(@),
                    !.hs = @ (+) One(Started(card, card \in st.fails)),
                    !.pbc = MapSetKey(@, card),
                    !.admitted = @ \cup {card}]

SkipsOnlyLive(st, card) == SeqHas(st.pbc, card)

\* A card of visibleCards is skipped when it already has a preview or is
\* marked failed.
Skips(st, card) == SeqHas(st.pbc, card) \/ st.cs[card].failed

RECURSIVE PumpLoopAllCards(_, _)
PumpLoopAllCards(i, st) ==
    IF i > NCards \/ st.overflow \/ st.aborted THEN st
    ELSE IF Len(st.pbc) >= st.cap THEN st
    ELSE IF Skips(st, i) THEN PumpLoopAllCards(i + 1, st)
    ELSE PumpLoopAllCards(i + 1, Admit(st, i))

\* The loop over visibleCards taken from its newest element.
RECURSIVE PumpLoopNewestFirst(_, _)
PumpLoopNewestFirst(i, st) ==
    IF i > Len(visibleCards) \/ st.overflow \/ st.aborted THEN st
    ELSE LET card == visibleCards[Len(visibleCards) + 1 - i]
         IN  IF Len(st.pbc) >= st.cap THEN st
             ELSE IF Skips(st, card) THEN PumpLoopNewestFirst(i + 1, st)
             ELSE LET st1 == IF Len(st.pbc) >= st.cap
                             THEN EvictOne(st) ELSE st
                  IN  IF Len(st1.pbc) >= st1.cap THEN st1
                      ELSE PumpLoopNewestFirst(i + 1, Admit(st1, card))

RECURSIVE PumpLoop(_, _)
PumpLoop(i, st) ==
    IF i > Len(visibleCards) \/ st.overflow \/ st.aborted THEN st
    ELSE LET card == visibleCards[i]
         IN  IF Len(st.pbc) >= st.cap THEN st
             ELSE IF Skips(st, card) THEN PumpLoop(i + 1, st)
             ELSE LET st1 == IF Len(st.pbc) >= st.cap
                             THEN EvictOne(st) ELSE st
                  IN  IF Len(st1.pbc) >= st1.cap THEN st1
                      ELSE PumpLoop(i + 1, Admit(st1, card))

\* The pass with the eviction tried before the cap check.
PumpVisiblePreviewsEvictsFirst(st) ==
    PumpLoop(1, IF Len(st.pbc) >= st.cap THEN EvictOne(st) ELSE st)

\* The pass making room at the cap by evicting the oldest entry, visible or
\* not.
PumpVisiblePreviewsEvictsOldest(st) ==
    IF Len(st.pbc) >= st.cap
    THEN LET r == ValueOf(st.hs, Head(st.pbc))
         IN  PumpLoop(1, [st EXCEPT
                 !.hs = Replace(st.hs, r, Unmap(Destroy(r, "evict"))),
                 !.pbc = Tail(st.pbc)])
    ELSE PumpLoop(1, st)

\* if (previewByCard.size >= MAX_ACTIVE_CARD_PREVIEWS) return; for (...)
PumpVisiblePreviews(st) ==
    IF Len(st.pbc) >= st.cap THEN st ELSE PumpLoop(1, st)

\* What pumpVisiblePreviews() does in the current state.
PumpPass == PumpVisiblePreviews(PumpState(previewByCard, handles, cards))

\* The requestAnimationFrame callback: pumpRaf = 0; pumpVisiblePreviews().
Pump ==
    /\ rafQueue > 0
    /\ LET st == PumpPass
       IN  /\ ~st.overflow
           /\ previewByCard' = st.pbc
           /\ handles' = st.hs
           /\ cards' = st.cs
           /\ created' = st.admitted
    /\ pumpRaf' = FALSE
    /\ rafQueue' = rafQueue - 1
    /\ UNCHANGED <<io, visibleCards>>
    /\ UNCHANGED <<handleVars, modalVars, queueVars>>

\* ------------------------------------------------------------------------
\* RELOAD click handler, up to its await               models.js:334-353
\* ------------------------------------------------------------------------
\* The click handler without reload.style.display = "none".
ReloadCardKeepsButton(cd) ==
    [cd EXCEPT !.failed = FALSE, !.phStop = TRUE, !.phText = "LOADING"]

\* card.dataset.failed = ""; reload.style.display = "none";
\* card._phStop = startDotLoader(ph, "LOADING")
ReloadCard(cd) ==
    [cd EXCEPT !.failed = FALSE, !.reload = "none",
               !.phStop = TRUE, !.phText = "LOADING"]

\* const prev = previewByCard.get(card);
\* if (prev) { prev.destroy(true); previewByCard.delete(card); }
\* const preview = new CardPreview(viewer); previewByCard.set(card, preview)
ReloadHandles(hs, m, c) ==
    LET hs1 == IF SeqHas(m, c)
               THEN LET r == ValueOf(hs, c)
                    IN  Replace(hs, r, Unmap(Destroy(r, "reload")))
               ELSE hs
    IN  hs1 (+) One(NewHandle(c, "reload"))

ReloadMap(m, c) == MapSetKey(IF SeqHas(m, c) THEN SetDelete(m, c) ELSE m, c)

\* The click handler, also counting the clicked card as visible.
ReloadMarksVisible(c) ==
    /\ io # "null"
    /\ cards[c].reload = "inline-flex"
    /\ Count(ReloadHandles(handles, previewByCard, c)) <= MaxHandles
    /\ cards' = [cards EXCEPT ![c] = ReloadCard(@)]
    /\ handles' = ReloadHandles(handles, previewByCard, c)
    /\ previewByCard' = ReloadMap(previewByCard, c)
    /\ created' = {c}
    /\ visibleCards' = SetAdd(visibleCards, c)
    /\ UNCHANGED <<io, pumpRaf, rafQueue>>
    /\ UNCHANGED <<handleVars, modalVars, queueVars>>

Reload(c) ==
    /\ io # "null"
    /\ cards[c].reload = "inline-flex"
    /\ Count(ReloadHandles(handles, previewByCard, c)) <= MaxHandles
    /\ cards' = [cards EXCEPT ![c] = ReloadCard(@)]
    /\ handles' = ReloadHandles(handles, previewByCard, c)
    /\ previewByCard' = ReloadMap(previewByCard, c)
    /\ created' = {c}
    /\ UNCHANGED <<io, visibleCards, pumpRaf, rafQueue>>
    /\ UNCHANGED <<handleVars, modalVars, queueVars>>

\* ------------------------------------------------------------------------
\* Settlement of preview.init(modelUrl)
\*   preview3d.js:155-159, models.js:460-475 and models.js:352-364
\* ------------------------------------------------------------------------

\* What loadGltfFromUrl delivers: a glTF with a scene, a glTF without one,
\* or an error.
LoadOutcomes == {"scene", "noscene", "error"}

\* init() rejects when the loader rejects, or when the handle is not
\* disposed and the glTF has no scene; otherwise it resolves.
InitRejects(disposed, outcome) ==
    \/ outcome = "error"
    \/ (~disposed /\ outcome = "noscene")

\* .then(...) of the pump, and the try branch of the RELOAD handler
ThenCard(cd) == [cd EXCEPT !.phStop = FALSE, !.phDisplay = "none"]

\* .catch(...) of the pump, and the catch branch of the RELOAD handler
CatchCard(cd) ==
    [cd EXCEPT !.failed = TRUE, !.phStop = FALSE, !.phDisplay = "flex",
               !.phText = "PREVIEW FAILED", !.reload = "inline-flex"]

\* Handlers that mark every card of the grid.
SettleCardsAll(cs, r, rejects) ==
    [c \in Cards |-> IF rejects THEN CatchCard(cs[c]) ELSE ThenCard(cs[c])]

\* Handlers whose rejection also puts back the placeholder of every other
\* card.
SettleCardsResetsOthers(cs, r, rejects) ==
    IF r.stale THEN cs
    ELSE [c \in Cards |->
            IF c = r.card THEN (IF rejects THEN CatchCard(cs[c]) ELSE ThenCard(cs[c]))
            ELSE IF rejects THEN [cs[c] EXCEPT !.phDisplay = "flex"] ELSE cs[c]]

\* The handlers act on the card object captured when the load started.
SettleCards(cs, r, rejects) ==
    IF r.stale THEN cs
    ELSE [cs EXCEPT ![r.card] = IF rejects THEN CatchCard(@) ELSE ThenCard(@)]

\* Only the pump's handlers call schedulePump().
SettlePump(raf, r) == IF r.via = "pump" THEN SchedulePump(raf) ELSE raf

SettleQueue(raf, q, r) == IF r.via = "pump" THEN QueuePump(raf, q) ELSE q

\* The promise leaves "pending"; nothing is removed from previewByCard.
SettleHandles(hs, r, rejects) ==
    Replace(hs, r, [r EXCEPT !.st = IF rejects THEN "rejected" ELSE "ready",
                             !.via = "none"])

\* What the handlers of a settling init() promise read and write.
SettleState(cs, raf, q, hs) == [cs |-> cs, raf |-> raf, q |-> q, hs |-> hs]

\* The promise of CardPreview r settles with the given loader outcome and
\* its handlers run.
Settled(st, r, outcome) ==
    LET rejects == InitRejects(r.disposed, outcome)
    IN  SettleState(SettleCards(st.cs, r, rejects),
                    SettlePump(st.raf, r),
                    SettleQueue(st.raf, st.q, r),
                    SettleHandles(st.hs, r, rejects))

\* The handlers of the promise of CardPreview r run.
SettleApply(r, outcome) ==
    /\ LET st == Settled(SettleState(cards, pumpRaf, rafQueue, handles), r, outcome)
       IN  /\ cards' = st.cs
           /\ pumpRaf' = st.raf
           /\ rafQueue' = st.q
           /\ handles' = st.hs
    /\ created' = {}
    /\ UNCHANGED <<io, previewByCard, visibleCards>>
    /\ UNCHANGED <<handleVars, modalVars, queueVars>>

\* The load of CardPreview r, or the init() around it, settles.
Settle(r, outcome) ==
    /\ r.st = "pending"
    /\ SettleApply(r, outcome)

\* The promise of a CardPreview whose init() failed before its first await
\* is rejected: its .catch handler runs.
SettleFailed(r) ==
    /\ r.st = "failing"
    /\ SettleApply(r, "error")

\* ------------------------------------------------------------------------
\* One pump pass on its own
\* ------------------------------------------------------------------------

\* The orders in which cards can be in visibleCards.
VisibleOrders ==
    {s \in UNION {[1..n -> Cards] : n \in 0..NCards} :
        \A i \in 1..Len(s) : \A j \in 1..Len(s) : s[i] = s[j] => i = j}

\* A card without preview: as built, or flagged by an earlier rejection and
\* back in the region after a leave entry.
CardsAtRest == {NewCard, LeaveCard(CatchCard(NewCard))}

\* A pump is pending, no card has a preview, some cards are visible in some
\* order, and some are flagged.
PassInit ==
    /\ io = "active"
    /\ previewByCard = <<>>
    /\ visibleCards \in VisibleOrders
    /\ pumpRaf = TRUE
    /\ rafQueue = 1
    /\ cards \in [Cards -> CardsAtRest]
    /\ handles = EmptyBag
    /\ created = {}

\* pumpVisiblePreviews() with the cap PassCap, where init() fails before its
\* first await for the cards of F.
PassOf(F) ==
    PumpVisiblePreviews([PumpState(previewByCard, handles, cards)
                            EXCEPT !.cap = PassCap, !.fails = F])

\* The requestAnimationFrame callback running that pass.
PassStep(F) ==
    /\ rafQueue > 0
    /\ LET st == PassOf(F)
       IN  /\ ~st.overflow
           /\ previewByCard' = st.pbc
           /\ handles' = st.hs
           /\ cards' = st.cs
           /\ created' = st.admitted
    /\ pumpRaf' = FALSE
    /\ rafQueue' = rafQueue - 1
    /\ UNCHANGED <<io, visibleCards>>
    /\ UNCHANGED <<handleVars, modalVars, queueVars>>

\* ------------------------------------------------------------------------
\* Specification of the grid
\* ------------------------------------------------------------------------
GridInit ==
    /\ io = "null"
    /\ previewByCard = <<>>
    /\ visibleCards = <<>>
    /\ pumpRaf = FALSE
    /\ rafQueue = 0
    /\ cards = [c \in Cards |-> NewCard]
    /\ handles = EmptyBag
    /\ created = {}


\* ------------------------------------------------------------------------
\* One CardPreview object                              preview3d.js:90-219
\* ------------------------------------------------------------------------

\* A mesh of the loaded scene references a geometry and a material (0: no
\* material); map[m] is the texture held by material m (0: none).  Meshes
\* may share geometries and materials, and materials may share textures.
Mesh == [geometry : Res, material : 0..NRes]
MeshSeqs == UNION {[1..n -> Mesh] : n \in 0..MaxMeshes}
Gltfs == [meshes : MeshSeqs, map : [Res -> 0..NRes]]
NoGraph == [meshes |-> <<>>, map |-> [m \in Res |-> 0]]

\* constructor: every field null, _disposed false.  pc is the position of
\* init(): "new" (not called), "raf" (awaiting the two animation frames),
\* "load" (awaiting loadGltfFromUrl), "resolved" (ran to its end with the
\* scene attached), "returned" (returned at the _disposed check),
\* "rejected".  drew: the last step called renderer.render.
\* (phEl and retryEl stay null: the viewer of a card has no .ph / .reloadBtn.)
Constructed ==
    [pc |-> "new", canvas |-> FALSE, renderer |-> FALSE, scene |-> FALSE,
     camera |-> FALSE, root |-> FALSE, graph |-> NoGraph,
     resizeObserver |-> FALSE, disposed |-> FALSE, drew |-> FALSE]

\* renderOnce(): draws unless renderer, scene or camera is null.
RenderOnce(h) == h.renderer /\ h.scene /\ h.camera

\* _resize(): returns at once without renderer or camera, else sizes the
\* renderer and calls renderOnce().
Resize(h) == h.renderer /\ h.camera /\ RenderOnce(h)

NothingReleased ==
    [resizeObserver |-> 0, renderer |-> 0, canvas |-> 0,
     geometry |-> [g \in Res |-> 0], material |-> [m \in Res |-> 0],
     texture |-> [t \in Res |-> 0]]

HandleInit ==
    /\ cp = Constructed
    /\ released = NothingReleased
    /\ threw = FALSE
    /\ destroyCalls = 0

\* init(), up to the first await.  webgl: makeRenderer obtains a context;
\* without one the constructor of the renderer throws and init() rejects.
InitStarted(h, webgl) ==
    IF webgl
    THEN [h EXCEPT !.disposed = FALSE, !.canvas = TRUE, !.scene = TRUE,
                   !.camera = TRUE, !.renderer = TRUE,
                   !.resizeObserver = TRUE, !.pc = "raf", !.drew = FALSE]
    ELSE [h EXCEPT !.disposed = FALSE, !.canvas = TRUE, !.scene = TRUE,
                   !.camera = TRUE, !.pc = "rejected", !.drew = FALSE]

HInitStart(webgl) ==
    /\ cp.pc = "new"
    /\ cp' = InitStarted(cp, webgl)
    /\ UNCHANGED <<released, threw, destroyCalls>>
    /\ UNCHANGED <<gridVars, modalVars, queueVars>>

\* The two animation frames passed: this._resize() (which returns at once
\* without renderer or camera, and otherwise only sizes and renders), then
\* the load starts.
HRafDone ==
    /\ cp.pc = "raf"
    /\ cp' = [cp EXCEPT !.pc = "load", !.drew = Resize(cp)]
    /\ UNCHANGED <<released, threw, destroyCalls>>
    /\ UNCHANGED <<gridVars, modalVars, queueVars>>

\* loadGltfFromUrl rejected: init() rejects.
HLoadError ==
    /\ cp.pc = "load"
    /\ cp' = [cp EXCEPT !.pc = "rejected", !.drew = FALSE]
    /\ UNCHANGED <<released, threw, destroyCalls>>
    /\ UNCHANGED <<gridVars, modalVars, queueVars>>

\* loadGltfFromUrl resolved.  hasScene: gltf.scene || gltf.scenes?.[0].
\* The continuation of init() after the load, without the _disposed check.
LoadResolvedUnchecked(h, hasScene, g) ==
    IF ~hasScene THEN [h EXCEPT !.pc = "rejected", !.drew = FALSE]
    ELSE [h EXCEPT !.root = TRUE, !.graph = g, !.pc = "resolved",
                   !.drew = RenderOnce(h)]

LoadResolved(h, hasScene, g) ==
    IF h.disposed THEN [h EXCEPT !.pc = "returned", !.drew = FALSE]
    ELSE IF ~hasScene THEN [h EXCEPT !.pc = "rejected", !.drew = FALSE]
    ELSE [h EXCEPT !.root = TRUE, !.graph = g, !.pc = "resolved",
                   !.drew = RenderOnce(h)]

\* The ResizeObserver reports the container's size: () => this._resize().
\* A disconnected observer reports nothing.
HResized ==
    /\ cp.resizeObserver
    /\ cp' = [cp EXCEPT !.drew = Resize(cp)]
    /\ UNCHANGED <<released, threw, destroyCalls>>
    /\ UNCHANGED <<gridVars, modalVars, queueVars>>

HLoadScene ==
    /\ cp.pc = "load"
    /\ \E g \in Gltfs : cp' = LoadResolved(cp, TRUE, g)
    /\ UNCHANGED <<released, threw, destroyCalls>>
    /\ UNCHANGED <<gridVars, modalVars, queueVars>>

HLoadNoScene ==
    /\ cp.pc = "load"
    /\ cp' = LoadResolved(cp, FALSE, NoGraph)
    /\ UNCHANGED <<released, threw, destroyCalls>>
    /\ UNCHANGED <<gridVars, modalVars, queueVars>>

\* A call on a field throws when the field is null and the call is not
\* guarded (by ?. or by an if on the field).
Throws(present, guarded) == ~present /\ ~guarded

\* obj.geometry?.dispose?.(); for each material: texture.dispose?.() for
\* every texture-valued property, then m.dispose?.()
ReleaseMesh(rel, mesh, g) ==
    LET r1 == [rel EXCEPT !.geometry[mesh.geometry] = @ + 1]
        m  == mesh.material
        r2 == IF m # 0 /\ g.map[m] # 0
              THEN [r1 EXCEPT !.texture[g.map[m]] = @ + 1] ELSE r1
    IN  IF m # 0 THEN [r2 EXCEPT !.material[m] = @ + 1] ELSE r2

\* this.root.traverse(...)
RECURSIVE Traverse(_, _, _)
Traverse(rel, g, i) ==
    IF i > Len(g.meshes) THEN rel
    ELSE Traverse(ReleaseMesh(rel, g.meshes[i], g), g, i + 1)

\* The releases of destroy(removeDom), in the order of the code.
DestroyReleases(h, rel, removeDom) ==
    LET r1 == IF h.resizeObserver THEN [rel EXCEPT !.resizeObserver = @ + 1] ELSE rel
        r2 == IF h.root THEN Traverse(r1, h.graph, 1) ELSE r1
        r3 == IF h.renderer THEN [r2 EXCEPT !.renderer = @ + 1] ELSE r2
    IN  IF removeDom /\ h.canvas THEN [r3 EXCEPT !.canvas = @ + 1] ELSE r3

\* Every call of destroy on a field is guarded: resizeObserver?., if (root
\* && scene), if (root), renderer?., canvas?.
DestroyThrows(h) ==
    \/ Throws(h.resizeObserver, TRUE)
    \/ Throws(h.root /\ h.scene, TRUE)
    \/ Throws(h.root, TRUE)
    \/ Throws(h.renderer, TRUE)
    \/ Throws(h.canvas, TRUE)

DestroyFieldsKeepsRenderer(h) ==
    [h EXCEPT !.disposed = TRUE, !.resizeObserver = FALSE, !.canvas = FALSE,
              !.scene = FALSE, !.camera = FALSE, !.root = FALSE,
              !.graph = NoGraph, !.drew = FALSE]

\* The fields after destroy: _disposed set, everything else null.
DestroyFields(h) ==
    [h EXCEPT !.disposed = TRUE, !.resizeObserver = FALSE, !.canvas = FALSE,
              !.renderer = FALSE, !.scene = FALSE, !.camera = FALSE,
              !.root = FALSE, !.graph = NoGraph, !.drew = FALSE]

HDestroy(removeDom) ==
    /\ cp' = DestroyFields(cp)
    /\ released' = DestroyReleases(cp, released, removeDom)
    /\ threw' = (threw \/ DestroyThrows(cp))
    /\ destroyCalls' = IF destroyCalls < MaxCalls THEN destroyCalls + 1 ELSE destroyCalls
    /\ UNCHANGED <<gridVars, modalVars, queueVars>>

\* ------------------------------------------------------------------------
\* ModalPreview                                        preview3d.js:220-339
\* openModal / closeModal                              models.js:479-527
\* (with a WebGL context available: _ensureCanvas does not throw)
\* ------------------------------------------------------------------------

\* this.root = null
NoRoot == [id |-> 0, url |-> 0]

\* gltf.scene of the load started by one call of open: a fresh object.
Root(call) == [id |-> call.id, url |-> call.url]

\* constructor.  raf: _raf is null, the id of a frame callback that is
\* still requested ("pending"), or the id of one that has run ("stale");
\* loose: requested frame callbacks of _loop whose id _raf no longer holds.
ModalConstructed ==
    [open |-> FALSE, currentUrl |-> 0, canvas |-> FALSE, root |-> NoRoot,
     scene |-> {}, raf |-> "null", loose |-> 0, loadingEl |-> "null"]

\* Requested frame callbacks of _loop.
Loops(m) == m.loose + (IF m.raf = "pending" THEN 1 ELSE 0)

\* _loop(): if (!this._open) return; this._raf = requestAnimationFrame(...)
ModalLoop(m) ==
    IF ~m.open THEN m
    ELSE [m EXCEPT !.raf = "pending",
                   !.loose = @ + (IF m.raf = "pending" THEN 1 ELSE 0)]

\* open(modelUrl) up to its await.
ModalOpen(m, u) ==
    [m EXCEPT !.open = TRUE, !.currentUrl = u, !.canvas = TRUE,
              !.loadingEl = "loading",
              !.scene = m.scene \ {m.root}, !.root = NoRoot]

\* open(modelUrl) from its await on.
ModalLoaded(m, call, o) ==
    IF o = "error" THEN [m EXCEPT !.loadingEl = "failed"]
    ELSE IF ~m.open THEN m
    ELSE IF o = "noscene" THEN [m EXCEPT !.root = NoRoot, !.loadingEl = "failed"]
    ELSE ModalLoop([m EXCEPT !.root = Root(call),
                             !.scene = @ \cup {Root(call)},
                             !.loadingEl = "hidden"])

\* close(): cancelAnimationFrame(this._raf) takes back the one callback
\* whose id _raf holds.
ModalClose(m) ==
    [m EXCEPT !.open = FALSE, !.raf = "null", !.currentUrl = 0]

ModalInit ==
    /\ mp = ModalConstructed
    /\ mloads = {}
    /\ mopens = 0
    /\ els = [open |-> FALSE, display |-> "css", text |-> "html"]

\* openModal(it) up to await modalPreview.open(dl).
OpenModal(u) ==
    /\ mopens < MaxOpens
    /\ els' = [open |-> TRUE, display |-> "flex", text |-> "Loading"]
    /\ mp' = ModalOpen(mp, u)
    /\ mloads' = mloads \cup {[id |-> mopens + 1, url |-> u]}
    /\ mopens' = mopens + 1
    /\ UNCHANGED <<gridVars, handleVars, queueVars>>

\* closeModal(): a click on the backdrop or the close button, or Escape
\* while the modal has the class is-open.
CloseModal ==
    /\ els.open
    /\ els' = [els EXCEPT !.open = FALSE, !.display = "flex"]
    /\ mp' = ModalClose(mp)
    /\ UNCHANGED <<mloads, mopens>>
    /\ UNCHANGED <<gridVars, handleVars, queueVars>>

\* loadGltfFromUrl settles for one call of open; open() catches every
\* failure, so its promise resolves and openModal hides els.modalLoading.
ModalSettle(call, o) ==
    /\ call \in mloads
    /\ mp' = ModalLoaded(mp, call, o)
    /\ mloads' = mloads \ {call}
    /\ els' = [els EXCEPT !.display = "none"]
    /\ UNCHANGED mopens
    /\ UNCHANGED <<gridVars, handleVars, queueVars>>

\* The browser runs one requested frame callback: () => this._loop().
ModalFrame(tracked) ==
    /\ IF tracked THEN mp.raf = "pending" ELSE mp.loose > 0
    /\ mp' = IF tracked THEN ModalLoop([mp EXCEPT !.raf = "stale"])
                        ELSE ModalLoop([mp EXCEPT !.loose = @ - 1])
    /\ UNCHANGED <<mloads, mopens, els>>
    /\ UNCHANGED <<gridVars, handleVars, queueVars>>

\* ------------------------------------------------------------------------
\* Queue-based viewers                               hive-browser.js:12-432
\* ------------------------------------------------------------------------

\* createCard(item): card.dataset.cardId is fresh for every call; the card
\* is named by the renderGrid call that built it and its item.
CreateCard(token, item) == <<token, item>>

\* The jobs of the cards of S, in document order.
RECURSIVE InOrder(_)
InOrder(S) ==
    IF S = {} THEN <<>>
    ELSE LET c == CHOOSE x \in S : \A y \in S : x[2] <= y[2]
         IN  <<c>> \o InOrder(S \ {c})

\* addBatch(): a stale token returns; otherwise the next BATCH items get
\* their card, observeThumb observes each thumb, and a further call is
\* requested while items remain.
AddBatch(st, token, idx) ==
    IF token # st.token THEN st
    ELSE LET slice == {i \in Items : idx < i /\ i <= idx + BATCH}
             next == idx + Cardinality(slice)
         IN  [st EXCEPT !.observed = @ \cup {CreateCard(token, i) : i \in slice},
                        !.batches = IF next < NItems
                                    THEN @ \cup {[token |-> token, idx |-> next]}
                                    ELSE @]

\* destroyCardViewer(cardId)
DestroyCardViewer(av, cardId) ==
    IF SeqHas(av, cardId) THEN SeqWithout(av, cardId) ELSE av

\* destroyAllCardViewers()
RECURSIVE DestroyEach(_, _)
DestroyEach(av, keys) ==
    IF keys = <<>> THEN av
    ELSE DestroyEach(DestroyCardViewer(av, Head(keys)), Tail(keys))

DestroyAllCardViewers(av) == DestroyEach(av, av)

\* while (activeViewers.size >= MAX_ACTIVE_VIEWERS)
\*     destroyCardViewer(activeViewers.keys().next().value)
RECURSIVE EvictToCap(_)
EvictToCap(av) ==
    IF Len(av) >= MAX_ACTIVE_VIEWERS /\ av # <<>>
    THEN EvictToCap(DestroyCardViewer(av, Head(av)))
    ELSE av

\* The while loop of pumpQueue from its head to the next await, or to the
\* finally clause when viewerQueue is empty.
RECURSIVE PumpQueueLoop(_)
PumpQueueLoop(st) ==
    IF st.q = <<>> THEN [st EXCEPT !.pumping = FALSE]
    ELSE LET av == EvictToCap(st.av)
             job == Head(st.q)
             s1 == [st EXCEPT !.av = av, !.q = Tail(st.q)]
         IN  IF SeqHas(av, job) THEN PumpQueueLoop(s1)
             ELSE [s1 EXCEPT !.av = Append(av, job),
                             !.loops = @ (+) One("stagger")]

\* A call of pumpQueue suspended at await point pc goes on.
ResumeLoop(st, pc) == PumpQueueLoop([st EXCEPT !.loops = @ (-) One(pc)])

\* pumpQueue() without its first line.
PumpQueueUnguarded(st) ==
    [st EXCEPT !.pumping = TRUE, !.loops = @ (+) One("script")]

\* pumpQueue() up to await ensureModelViewerScript()
PumpQueue(st) ==
    IF st.pumping THEN st
    ELSE [st EXCEPT !.pumping = TRUE, !.loops = @ (+) One("script")]

\* queueViewerCreate(job)
QueueViewerCreate(st, job) == PumpQueue([st EXCEPT !.q = Append(@, job)])

\* for (const ent of entries): the intersecting entries, one per job.
RECURSIVE QueueEach(_, _)
QueueEach(st, jobs) ==
    IF jobs = <<>> THEN st
    ELSE QueueEach(QueueViewerCreate(st, Head(jobs)), Tail(jobs))

\* Once model-viewer is defined, ensureModelViewerScript() returns a
\* resolved promise and the call goes on as soon as the running callback
\* has returned.
RECURSIVE Microtasks(_)
Microtasks(st) ==
    IF st.mv /\ BagIn("script", st.loops)
    THEN Microtasks(ResumeLoop(st, "script"))
    ELSE st

QueueState ==
    [av |-> activeViewers, q |-> viewerQueue, pumping |-> pumping,
     loops |-> loops, mv |-> mvDefined]

QueueApply(st) ==
    /\ activeViewers' = st.av
    /\ viewerQueue' = st.q
    /\ pumping' = st.pumping
    /\ loops' = st.loops
    /\ mvDefined' = st.mv

QueueInit ==
    /\ renderToken = 0
    /\ observed = {}
    /\ batches = {}
    /\ activeViewers = <<>>
    /\ viewerQueue = <<>>
    /\ pumping = FALSE
    /\ loops = EmptyBag
    /\ mvDefined = FALSE

\* renderGrid(), with its first call of addBatch: clearChildren takes the
\* cards of the previous call out of the document.
HbRenderGrid ==
    /\ renderToken < MaxRenders
    /\ LET token == renderToken + 1
           st == AddBatch([token |-> token, observed |-> {}, batches |-> batches],
                          token, 0)
       IN  /\ renderToken' = token
           /\ observed' = st.observed
           /\ batches' = st.batches
    /\ activeViewers' = DestroyAllCardViewers(activeViewers)
    /\ UNCHANGED <<viewerQueue, pumping, loops, mvDefined>>
    /\ UNCHANGED <<gridVars, handleVars, modalVars>>

\* A requested addBatch callback runs.
HbAddBatch(b) ==
    /\ b \in batches
    /\ LET st == AddBatch([token |-> renderToken, observed |-> observed,
                           batches |-> batches \ {b}], b.token, b.idx)
       IN  /\ observed' = st.observed
           /\ batches' = st.batches
    /\ UNCHANGED <<renderToken, activeViewers, viewerQueue, pumping, loops, mvDefined>>
    /\ UNCHANGED <<gridVars, handleVars, modalVars>>

\* The IntersectionObserver callback with intersecting entries for the
\* thumbs of S: queueViewerCreate and io.unobserve for each.
HbIntersect(S) ==
    /\ S # {}
    /\ S \subseteq observed
    /\ observed' = observed \ S
    /\ QueueApply(Microtasks(QueueEach(QueueState, InOrder(S))))
    /\ UNCHANGED <<renderToken, batches>>
    /\ UNCHANGED <<gridVars, handleVars, modalVars>>

\* The model-viewer script loads: a call of pumpQueue waiting for it goes on.
HbScriptLoaded ==
    /\ BagIn("script", loops)
    /\ QueueApply(ResumeLoop([QueueState EXCEPT !.mv = TRUE], "script"))
    /\ UNCHANGED <<renderToken, observed, batches>>
    /\ UNCHANGED <<gridVars, handleVars, modalVars>>

\* The script fails to load: ensureModelViewerScript() rejects and the
\* finally clause of pumpQueue runs.
HbScriptFailed ==
    /\ ~mvDefined
    /\ BagIn("script", loops)
    /\ loops' = loops (-) One("script")
    /\ pumping' = FALSE
    /\ UNCHANGED <<renderToken, observed, batches, activeViewers, viewerQueue, mvDefined>>
    /\ UNCHANGED <<gridVars, handleVars, modalVars>>

\* The 50 ms timer after a viewer was made fires.
HbStaggerDone ==
    /\ BagIn("stagger", loops)
    /\ QueueApply(ResumeLoop(QueueState, "stagger"))
    /\ UNCHANGED <<renderToken, observed, batches>>
    /\ UNCHANGED <<gridVars, handleVars, modalVars>>


\* ------------------------------------------------------------------------
\* Specifications
\* ------------------------------------------------------------------------
Init == GridInit /\ HandleInit /\ ModalInit /\ QueueInit

Next ==
    \/ RenderGrid
    \/ \E S \in SUBSET Cards : FirstEntries(S)
    \/ \E c \in Cards : Enter(c)
    \/ \E c \in Cards : Leave(c)
    \/ Pump
    \/ \E c \in Cards : Reload(c)
    \/ \E r \in BagToSet(handles) : \E o \in LoadOutcomes : Settle(r, o)

PassNext ==
    \/ \E F \in SUBSET Cards : PassStep(F)
    \/ \E r \in BagToSet(handles) : \E o \in LoadOutcomes : Settle(r, o)
    \/ \E r \in BagToSet(handles) : SettleFailed(r)

HNext ==
    \/ \E webgl \in BOOLEAN : HInitStart(webgl)
    \/ HRafDone
    \/ HLoadError
    \/ HLoadScene
    \/ HLoadNoScene
    \/ HResized
    \/ \E removeDom \in BOOLEAN : HDestroy(removeDom)

MNext ==
    \/ \E u \in Urls : OpenModal(u)
    \/ CloseModal
    \/ \E call \in mloads : \E o \in {"scene", "noscene", "error"} : ModalSettle(call, o)
    \/ \E tracked \in BOOLEAN : ModalFrame(tracked)

QNext ==
    \/ HbRenderGrid
    \/ \E b \in batches : HbAddBatch(b)
    \/ \E S \in SUBSET observed : HbIntersect(S)
    \/ HbScriptLoaded
    \/ HbScriptFailed
    \/ HbStaggerDone

vars == <<gridVars, handleVars, modalVars, queueVars>>

Spec == Init /\ [][Next]_vars

SpecHandle == Init /\ [][HNext]_vars

\* One pump pass, with the settlements that follow it.
PassStart == PassInit /\ HandleInit /\ ModalInit /\ QueueInit

SpecPass == PassStart /\ [][PassNext]_vars

\* The modal on its own.
SpecModal == Init /\ [][MNext]_vars

\* The queue-based viewer manager on its own.
SpecQueue == Init /\ [][QNext]_vars

\* The grid with the browser running every queued animation-frame callback.
SpecLive == Init /\ [][Next]_vars /\ WF_vars(Pump)

TypeOK ==
    /\ io \in {"null", "new", "active"}
    /\ pumpRaf \in BOOLEAN
    /\ rafQueue \in Nat
    /\ \A i \in 1..Len(visibleCards) : visibleCards[i] \in Cards
    /\ \A i \in 1..Len(previewByCard) :
          Cardinality({r \in BagToSet(handles) : IsValueOf(r, previewByCard[i])}) = 1
    /\ Count(handles) <= MaxHandles
    /\ threw \in BOOLEAN


\* ------------------------------------------------------------------------
\* Properties
\* ------------------------------------------------------------------------
Live(c) == SeqHas(previewByCard, c)
Visible(c) == SeqHas(visibleCards, c)
Handles == BagToSet(handles)

\* C1: in every reachable state the Live Resource Set (previewByCard) holds
\* at most MAX_ACTIVE_CARD_PREVIEWS entries.
C1_LiveWithinCap == Len(previewByCard) <= MAX_ACTIVE_CARD_PREVIEWS

\* C2: no card is at once a key of previewByCard and marked failed.
C2_NoLiveFailedSlot == \A c \in Cards : ~(Live(c) /\ cards[c].failed)

\* After a leave entry for card c: c is in neither collection and no
\* CardPreview of c is left undisposed.
LeftClean(c) ==
    /\ ~SeqHas(previewByCard', c)
    /\ ~SeqHas(visibleCards', c)
    /\ \A r \in BagToSet(handles') : (r.card = c /\ ~r.stale) => r.disposed

\* C3: the step that processes a leave entry for a card leaves the card
\* absent from previewByCard and from visibleCards, with the handle it held
\* disposed, whether or not that handle's load had settled.
C3_LeaveEvictsAtOnce ==
    [][/\ \A c \in Cards : Leave(c) => LeftClean(c)
       /\ \A S \in SUBSET Cards :
             FirstEntries(S) => \A c \in Cards \ S : LeftClean(c)]_vars

\* A card has just left while its load was pending: the destroyed object is
\* still in flight and the card is in neither collection.
C3_Witness ==
    \E r \in Handles :
        /\ r.by = "leave" /\ r.st = "pending" /\ ~r.stale
        /\ ~Live(r.card) /\ ~Visible(r.card)

\* C4: a pump pass inserts into previewByCard only cards that are in
\* visibleCards at the time of the pass.
C4_PumpAdmitsOnlyVisible ==
    [][Pump => \A c \in Cards :
                  (c \in created' \/ (SeqHas(previewByCard', c) /\ ~Live(c)))
                      => Visible(c)]_vars

\* A pump pass has just admitted a card while another card, not visible,
\* stayed without a preview.
C4_Witness ==
    /\ \E c \in created : \E r \in Handles : IsValueOf(r, c) /\ r.via = "pump"
    /\ \E d \in Cards : ~Visible(d) /\ ~Live(d)

\* C5: a step creates a CardPreview for a card whose failure flag is set
\* only if the step is the manual retry (RELOAD click) on that card.
C5_FailedNeedsManualRetry ==
    [][\A c \in Cards : (cards[c].failed /\ c \in created') => Reload(c)]_vars

\* A pump pass has run with capacity to spare and left a visible failed card
\* without a preview.
C5_Witness ==
    \E c \in Cards :
        /\ cards[c].failed /\ Visible(c) /\ ~Live(c)
        /\ ~pumpRaf
        /\ Len(previewByCard) < MAX_ACTIVE_CARD_PREVIEWS

\* C6: when the load of a handle that was destroyed because its card left
\* resolves, the card's display state and previewByCard stay as they are.
C6_LateResolveIsNoOp ==
    [][\A r \in Handles :
          (r.by = "leave" /\ ~r.stale /\ r.st = "pending" /\ Settle(r, "scene"))
              => (cards'[r.card] = cards[r.card] /\ previewByCard' = previewByCard)]_vars

\* C7: the settlement of a load whose handle is already disposed leaves the
\* failure flag of its card as it is.
C7_LateSettleKeepsFlag ==
    [][\A r \in Handles : \A o \in LoadOutcomes :
          (r.disposed /\ ~r.stale /\ Settle(r, o))
              => cards'[r.card].failed = cards[r.card].failed]_vars

\* C8: renderGrid leaves previewByCard and visibleCards empty, every card
\* unflagged, and no CardPreview of the previous generation undisposed or
\* still stored.
C8_RenderTearsDown ==
    [][RenderGrid =>
          /\ previewByCard' = <<>>
          /\ visibleCards' = <<>>
          /\ \A c \in Cards : ~cards'[c].failed
          /\ \A r \in BagToSet(handles') : r.disposed /\ ~r.live /\ r.stale]_vars

\* renderGrid has just destroyed a handle that was live, its load still in
\* flight.
C8_Witness ==
    /\ io = "new"
    /\ \E r \in Handles : r.stale /\ r.by = "render"

\* C9: every CardPreview that is not disposed is the value of exactly one
\* key of previewByCard, and no card has two undisposed CardPreviews.
C9_UndisposedAreOwned ==
    \A r \in Handles :
        ~r.disposed =>
            /\ r.live /\ ~r.stale /\ Live(r.card)
            /\ handles[r] = 1
            /\ \A q \in Handles : (~q.disposed /\ q.card = r.card) => q = r

\* A card holds a new live handle while the one it held before, destroyed
\* on the way out of the Map, still has its load in flight.
C9_Witness ==
    \E r \in Handles : \E q \in Handles :
        /\ r.disposed /\ r.st = "pending" /\ ~r.stale
        /\ ~q.disposed /\ q.card = r.card

\* Release counts of the resources one CardPreview owns.
HandleLevelOnce ==
    /\ released.resizeObserver <= 1
    /\ released.renderer <= 1
    /\ released.canvas <= 1

SceneLevelOnce ==
    \A i \in Res :
        /\ released.geometry[i] <= 1
        /\ released.material[i] <= 1
        /\ released.texture[i] <= 1

\* A call of destroy on an already disposed handle changes neither the
\* handle nor what has been released.
RepeatedDestroyIsNoOp ==
    \A removeDom \in BOOLEAN :
        (cp.disposed /\ HDestroy(removeDom)) => (cp' = cp /\ released' = released)

\* Once a call has released something, no call of destroy releases more.
ReleasesInOneCall ==
    \A removeDom \in BOOLEAN :
        (released # NothingReleased /\ HDestroy(removeDom)) => released' = released

HoldsNothing(h) ==
    /\ ~h.root /\ ~h.renderer /\ ~h.scene /\ ~h.camera /\ ~h.canvas
    /\ ~h.resizeObserver /\ h.graph = NoGraph

\* C11: a CardPreview destroyed while its init() is in flight stays disposed
\* and holds no root, renderer, scene, camera, canvas or resize observer and
\* draws nothing in any later step: the resolution of its load returns
\* without attaching the scene, and it never becomes ready.
C11_DisposedNeverReady ==
    /\ [](cp.disposed => (HoldsNothing(cp) /\ ~cp.drew))
    /\ [][(cp.disposed /\ cp.pc \in {"raf", "load"})
             => (cp'.disposed /\ HoldsNothing(cp') /\ ~cp'.drew
                 /\ cp'.pc # "resolved" /\ released' = released)]_vars

\* The load of a CardPreview that was destroyed while it was in flight (its
\* renderer released then) has resolved and init() has returned.
C11_Witness ==
    /\ cp.disposed /\ cp.pc = "returned"
    /\ released.renderer = 1

IsCandidate(c) == ~Live(c) /\ ~cards[c].failed
Candidates == SelectSeq(visibleCards, IsCandidate)
Min(a, b) == IF a <= b THEN a ELSE b
SeqSet(s) == {s[i] : i \in 1..Len(s)}

C14_RejectionFreesCapacity ==
    [][\A r \in Handles : \A o \in LoadOutcomes :
          (/\ Settle(r, o) /\ InitRejects(r.disposed, o)
           /\ r.via = "pump" /\ r.live /\ ~r.stale /\ Visible(r.card)
           /\ Len(previewByCard) = MAX_ACTIVE_CARD_PREVIEWS
           /\ Candidates # <<>>)
          => /\ pumpRaf'
             /\ (~PumpPass.overflow)' => (Candidates[1] \in PumpPass.admitted)']_vars

\* C15: the manual retry (RELOAD click) on a failed card clears its failure
\* flag, destroys and removes the preview it still holds, and requests a
\* pump; the step creates no preview and does not insert the card into
\* previewByCard (admission is left to the next pump pass).
C15_RetryLeavesAdmissionToPump ==
    [][\A c \in Cards :
          Reload(c) => /\ ~cards'[c].failed
                       /\ \A r \in Handles : IsValueOf(r, c) =>
                             \A q \in BagToSet(handles') : q.card = c => q # r
                       /\ pumpRaf'
                       /\ created' = {}
                       /\ ~SeqHas(previewByCard', c)]_vars

\* C16: at most one pump callback is queued at any time, and one is queued
\* exactly when pumpRaf is set; a step that calls schedulePump() while a
\* pump is pending changes neither; and the pump pass that runs leaves no
\* further pass queued, however many requests preceded it.
C16_SchedulePumpIdempotent ==
    /\ [](rafQueue <= 1 /\ (pumpRaf <=> rafQueue = 1))
    /\ [][(pumpRaf /\ ~Pump) => (pumpRaf' /\ rafQueue' = rafQueue)]_vars
    /\ [][Pump => (rafQueue = 1 /\ rafQueue' = 0 /\ ~pumpRaf')]_vars

\* Both cards came into the region since the last pump pass, each entry
\* calling schedulePump(), and one pump callback is queued.
C16_Witness ==
    /\ io = "active"
    /\ Len(visibleCards) = NCards
    /\ previewByCard = <<>> /\ handles = EmptyBag
    /\ \A c \in Cards : ~cards[c].failed
    /\ pumpRaf /\ rafQueue = 1

\* previewByCard is at the cap and every card in it is visible.
AtCapAllVisible ==
    /\ Len(previewByCard) >= MAX_ACTIVE_CARD_PREVIEWS
    /\ \A i \in 1..Len(previewByCard) : Visible(previewByCard[i])

\* C17: if every queued pump eventually runs, a card that is in
\* visibleCards with its failure flag unset eventually has a preview, or
\* leaves visibleCards (by a leave entry or a re-render), or previewByCard
\* is at the cap with only visible cards.  (A pump pass that needs more
\* CardPreview objects than MaxHandles is outside the model.)
C17_NoStarvation ==
    \A c \in Cards :
        (Visible(c) /\ ~cards[c].failed)
            ~> (Live(c) \/ ~Visible(c) \/ AtCapAllVisible \/ PumpPass.overflow)

\* The step processes the rejection of a load started for card c of the
\* current generation.
RejectionFor(c) ==
    \E r \in Handles : \E o \in LoadOutcomes :
        /\ r.card = c /\ ~r.stale
        /\ InitRejects(r.disposed, o)
        /\ Settle(r, o)

\* C18: a card is built with its failure flag unset; within a generation
\* the flag is set only by a step that processes a rejection of a load of
\* that card, and cleared only by the RELOAD click on that card; every other
\* step (enter, leave, pump, resolution, steps about other cards) leaves it.
C18_FlagTransitions ==
    /\ \A c \in Cards : ~cards[c].failed
    /\ [][RenderGrid => \A c \in Cards : ~cards'[c].failed]_vars
    /\ [][\A c \in Cards :
            /\ (~cards[c].failed /\ cards'[c].failed) => RejectionFor(c)
            /\ (cards[c].failed /\ ~cards'[c].failed) => (Reload(c) \/ RenderGrid)
            /\ (cards[c].failed # cards'[c].failed) =>
                  ~(Pump \/ (\E d \in Cards : Enter(d) \/ Leave(d))
                         \/ (\E S \in SUBSET Cards : FirstEntries(S)))]_vars

\* A card was marked failed by a rejection and the RELOAD click has just
\* cleared the flag.
C18_Witness ==
    \E r \in Handles :
        /\ r.via = "reload" /\ IsValueOf(r, r.card)
        /\ created = {r.card}
        /\ ~cards[r.card].failed

\* C19: the step that processes a load rejection leaves visibleCards and
\* previewByCard as they are, and changes no card but the one the load was
\* started for and no CardPreview but the one whose load it was; beyond
\* that card it may only set pumpRaf.
C19_RejectionIsLocal ==
    [][\A r \in Handles : \A o \in LoadOutcomes :
          (Settle(r, o) /\ InitRejects(r.disposed, o)) =>
              /\ visibleCards' = visibleCards
              /\ previewByCard' = previewByCard
              /\ io' = io
              /\ \A d \in Cards : (r.stale \/ d # r.card) => cards'[d] = cards[d]
              /\ \A q \in Handles :
                    q # r => (q \in BagToSet(handles') /\ handles'[q] = handles[q])
              /\ \A q \in BagToSet(handles') :
                    q \in Handles \/ (q.card = r.card /\ q.st = "rejected")
              /\ (pumpRaf => pumpRaf')]_vars

\* The load of one card's preview has rejected while another card holds a
\* live preview whose load is pending; that card is unflagged.
C19_Witness ==
    \E r \in Handles : \E q \in Handles :
        /\ r.st = "rejected" /\ IsValueOf(r, r.card) /\ cards[r.card].failed
        /\ q.card # r.card /\ IsValueOf(q, q.card) /\ q.st = "pending"
        /\ ~cards[q.card].failed /\ cards[q.card].phText = "LOADING"
        /\ created = {}

\* C20: in every reachable state the RELOAD button of a card is shown
\* exactly when the card's failure flag is set.
C20_ReloadShownIffFailed ==
    \A c \in Cards : (cards[c].reload = "inline-flex") <=> cards[c].failed

\* A failed card has left the region and still shows RELOAD, while a card
\* that was retried by a RELOAD click hides it again, its load pending.
C20_Witness ==
    \E c \in Cards : \E r \in Handles :
        /\ cards[c].failed /\ cards[c].reload = "inline-flex"
        /\ ~Visible(c) /\ ~Live(c)
        /\ r.card # c /\ IsValueOf(r, r.card) /\ r.via = "reload"
        /\ ~cards[r.card].failed /\ cards[r.card].reload = "none"

\* C21: a pump pass that starts with previewByCard at or above the cap
\* creates and destroys no CardPreview and leaves previewByCard,
\* visibleCards and every card (flag and display) as they are.
C21_PumpAtCapIsNoOp ==
    [][(Pump /\ Len(previewByCard) >= MAX_ACTIVE_CARD_PREVIEWS) =>
          /\ created' = {}
          /\ handles' = handles
          /\ previewByCard' = previewByCard
          /\ visibleCards' = visibleCards
          /\ cards' = cards]_vars

\* A pump pass has run at the cap and left a candidate waiting, while a
\* card that is not visible holds a preview.
C21_Witness ==
    /\ ~pumpRaf /\ created = {}
    /\ Len(previewByCard) >= MAX_ACTIVE_CARD_PREVIEWS
    /\ Candidates # <<>>
    /\ \E i \in 1..Len(previewByCard) : ~Visible(previewByCard[i])

\* The keys of previewByCard that are not in visibleCards, in insertion order.
NotVisibleKeys == SelectSeq(previewByCard, LAMBDA c : ~Visible(c))

\* C22: a pump pass that finds a candidate while previewByCard is at the
\* cap and holds a card that is not visible evicts the first such entry
\* (destroys its CardPreview and deletes it) and admits the candidate.
C22_PumpEvictsNotVisible ==
    [][(/\ Pump
        /\ Len(previewByCard) = MAX_ACTIVE_CARD_PREVIEWS
        /\ Candidates # <<>>
        /\ NotVisibleKeys # <<>>)
       => /\ ~SeqHas(previewByCard', NotVisibleKeys[1])
          /\ Candidates[1] \in created'
          /\ SeqHas(previewByCard', Candidates[1])]_vars

\* C23: a pump pass keeps the preview of every visible card: the card stays
\* a key of previewByCard and its CardPreview is neither destroyed nor
\* replaced; at the cap with only visible cards the pass admits nothing.
C23_PumpKeepsVisible ==
    [][Pump =>
          /\ \A c \in Cards : (Visible(c) /\ Live(c)) =>
                /\ SeqHas(previewByCard', c)
                /\ \E r \in BagToSet(handles') :
                      IsValueOf(r, c) /\ r = ValueOf(handles, c)
          /\ AtCapAllVisible => (created' = {} /\ previewByCard' = previewByCard
                                 /\ handles' = handles)]_vars

\* A pump pass has run at the cap with every preview on a visible card and
\* a candidate waiting; the preview is still live, its load pending.
C23_Witness ==
    /\ ~pumpRaf /\ created = {}
    /\ AtCapAllVisible
    /\ Candidates # <<>>
    /\ \A i \in 1..Len(previewByCard) :
          \E r \in Handles : IsValueOf(r, previewByCard[i])
                                /\ ~r.disposed /\ r.st = "pending"

\* C24: every key of previewByCard is visible or was visible when its
\* CardPreview was created: a step that creates a CardPreview for a card, in
\* a pump pass or in the RELOAD click handler, finds the card in
\* visibleCards, and a key that is not visible was a key before the step.
C24_LiveWasVisibleAtAdmission ==
    [][\A c \in Cards :
          /\ c \in created' => Visible(c)
          /\ (SeqHas(previewByCard', c) /\ ~SeqHas(visibleCards', c)) =>
                (Live(c) \/ Visible(c))]_vars

\* C25: when a card left and came back while its first load was pending
\* and holds a new CardPreview whose load is pending, the settlement of the
\* first, destroyed CardPreview's load leaves the card's display (still
\* "LOADING") and its failure flag as they are.
C25_StaleSettleKeepsLoading ==
    [][\A r \in Handles : \A o \in LoadOutcomes :
          (/\ r.disposed /\ r.by = "leave" /\ ~r.stale
           /\ Visible(r.card)
           /\ \E q \in Handles : IsValueOf(q, r.card) /\ q.st = "pending"
           /\ Settle(r, o))
          => cards'[r.card] = cards[r.card]]_vars

\* Two loads are pending for distinct cards of the current generation.
PendingPair(r, q) ==
    /\ r.st = "pending" /\ q.st = "pending"
    /\ ~r.stale /\ ~q.stale /\ r.card # q.card

\* C26: when the pending loads of two distinct cards both settle with
\* nothing in between, the cards (flags and display), pumpRaf, the queued
\* pump and the CardPreviews are the same whichever settles first, for every
\* pair of outcomes; neither settlement touches previewByCard.
C26_SettleOrderCommutes ==
    \A r \in Handles : \A q \in Handles :
        PendingPair(r, q) =>
            \A o1 \in LoadOutcomes : \A o2 \in LoadOutcomes :
                LET now == SettleState(cards, pumpRaf, rafQueue, handles)
                IN  Settled(Settled(now, r, o1), q, o2)
                        = Settled(Settled(now, q, o2), r, o1)

\* Two loads are pending for distinct cards, one of them on a CardPreview
\* destroyed by a leave entry, and no pump is pending.
C26_Witness ==
    /\ ~pumpRaf
    /\ \E r \in Handles : \E q \in Handles :
          /\ PendingPair(r, q)
          /\ r.disposed /\ r.by = "leave" /\ IsValueOf(q, q.card)

\* CardPreview r belongs to a generation that renderGrid has torn down.
PreviousGeneration(r) == r.stale \/ r.by = "render"

C28_EnterOnlyMarksVisible ==
    /\ [][\A c \in Cards : Enter(c) =>
            /\ visibleCards' = SetAdd(visibleCards, c)
            /\ pumpRaf'
            /\ created' = {}
            /\ previewByCard' = previewByCard
            /\ handles' = handles
            /\ cards' = cards]_vars
    /\ [][\A S \in SUBSET Cards : FirstEntries(S) =>
            \A c \in S : /\ SeqHas(visibleCards', c) /\ pumpRaf'
                          /\ created' = {}
                          /\ cards'[c] = cards[c]
                          /\ ~SeqHas(previewByCard', c)]_vars

\* A failed card has come back into the region: it is the newest element
\* of visibleCards, still flagged and showing PREVIEW FAILED, with no
\* preview, and a pump is pending.
C28_Witness ==
    /\ pumpRaf /\ created = {}
    /\ visibleCards # <<>>
    /\ LET c == visibleCards[Len(visibleCards)]
       IN  /\ cards[c].failed /\ cards[c].phText = "PREVIEW FAILED"
           /\ cards[c].reload = "inline-flex"
           /\ ~Live(c)

\* The display of a card outside the region: the placeholder shown, with
\* PREVIEW FAILED and the RELOAD button if the card is flagged, empty and
\* without the button otherwise; no dot loader running.
LeftDisplay(failed) ==
    [failed |-> failed, phDisplay |-> "flex",
     phText |-> IF failed THEN "PREVIEW FAILED" ELSE "",
     reload |-> IF failed THEN "inline-flex" ELSE "none",
     phStop |-> FALSE]

\* C29: after a leave entry for a card the card shows "failed" if its flag
\* is set and "idle" otherwise, whatever it showed before, its flag is as
\* before, and a pump is pending.
C29_LeaveResetsDisplay ==
    /\ [][\A c \in Cards : Leave(c) =>
            (cards'[c] = LeftDisplay(cards[c].failed) /\ pumpRaf')]_vars
    /\ [][\A S \in SUBSET Cards : FirstEntries(S) =>
            \A c \in Cards \ S :
                (cards'[c] = LeftDisplay(cards[c].failed) /\ pumpRaf')]_vars

\* One card has left while its load was pending and shows the empty
\* placeholder; another, flagged, is outside the region and shows PREVIEW
\* FAILED with RELOAD; a pump is pending.
C29_Witness ==
    /\ pumpRaf
    /\ \E r \in Handles : \E d \in Cards :
          /\ r.by = "leave" /\ ~r.stale /\ r.st = "pending" /\ r.via = "pump"
          /\ ~Visible(r.card) /\ cards[r.card] = LeftDisplay(FALSE)
          /\ d # r.card /\ ~Visible(d) /\ cards[d] = LeftDisplay(TRUE)

\* The step is a callback of the IntersectionObserver.
IoCallback ==
    \/ \E c \in Cards : Enter(c) \/ Leave(c)
    \/ \E S \in SUBSET Cards : FirstEntries(S)

\* C30: visibleCards changes only in a callback of the IntersectionObserver
\* (enter and leave entries) and in renderGrid, which empties it; pump
\* passes, settlements of loads and RELOAD clicks leave it as it is.
C30_VisibleSetFrame ==
    /\ [][visibleCards' # visibleCards => (IoCallback \/ RenderGrid)]_vars
    /\ [][RenderGrid => visibleCards' = <<>>]_vars
    /\ [][(\/ Pump
           \/ \E c \in Cards : Reload(c)
           \/ \E r \in Handles : \E o \in LoadOutcomes : Settle(r, o))
          => visibleCards' = visibleCards]_vars

\* Both cards are visible, the second of the document first; a pump pass
\* has admitted one, its load has resolved and the pump that followed has
\* run: visibleCards is as the entries left it.
C30_Witness ==
    /\ Len(visibleCards) = NCards /\ visibleCards[1] # 1
    /\ ~pumpRaf
    /\ \E r \in Handles : r.st = "ready" /\ IsValueOf(r, visibleCards[1])

\* C31: the settlement, either way, of the load of a CardPreview that is
\* still the value of its card in previewByCard leaves a pump pending,
\* whether the CardPreview was created by a pump pass or by a RELOAD click.
C31_SettlementRequestsPump ==
    [][\A r \in Handles : \A o \in LoadOutcomes :
          (IsValueOf(r, r.card) /\ Settle(r, o)) => pumpRaf']_vars

\* C32: a failure of init() before its first await does not leave the pump
\* pass: whatever cards it hits, the pass admits the first candidates up to
\* the cap as if nothing had failed, every admitted card has its CardPreview
\* stored with the handlers attached, and no flag changes in the pass; the
\* failure shows later, when the .catch handler flags that one card.
C32_FailureNeverSynchronous ==
    /\ [][\A F \in SUBSET Cards : PassStep(F) =>
            LET m == Min(Len(Candidates), PassCap - Len(previewByCard))
                first == SubSeq(Candidates, 1, m)
            IN  /\ ~PassOf(F).aborted
                /\ previewByCard' = previewByCard \o first
                /\ created' = SeqSet(first)
                /\ \A c \in SeqSet(first) :
                      \E r \in BagToSet(handles') :
                          /\ IsValueOf(r, c) /\ ~r.disposed /\ r.via = "pump"
                          /\ r.st = IF c \in F THEN "failing" ELSE "pending"
                /\ \A c \in Cards : cards'[c].failed = cards[c].failed]_vars
    /\ [][\A r \in Handles : SettleFailed(r) =>
            /\ cards'[r.card].failed
            /\ \A d \in Cards \ {r.card} : cards'[d] = cards[d]
            /\ previewByCard' = previewByCard
            /\ visibleCards' = visibleCards]_vars

\* A pass has admitted two cards: init() failed before its first await for
\* the first, which is not flagged yet, and the load of the second is
\* pending.
C32_Witness ==
    /\ Len(previewByCard) = 2
    /\ created = {previewByCard[1], previewByCard[2]}
    /\ ~cards[previewByCard[1]].failed
    /\ \E r \in Handles : IsValueOf(r, previewByCard[1]) /\ r.st = "failing"
    /\ \E q \in Handles : IsValueOf(q, previewByCard[2]) /\ q.st = "pending"

\* C33: in every reachable state in which previewByCard is below the cap
\* and some card of visibleCards has no preview and is not flagged, a pump
\* is pending.
C33_NoLostWakeup ==
    (Len(previewByCard) < MAX_ACTIVE_CARD_PREVIEWS /\ Candidates # <<>>) => pumpRaf

\* A slot was freed after previews had been created, a card is waiting, and
\* the pump is pending.
C33_Witness ==
    /\ Handles # {}
    /\ Len(previewByCard) < MAX_ACTIVE_CARD_PREVIEWS
    /\ Candidates # <<>>
    /\ pumpRaf

\* C34: once every load has settled with the modal open and the root of
\* the most recently opened model in the scene, that root is the only model
\* in the scene and is this.root, whatever the order in which the loads of
\* earlier calls of open settled.
C34_ModalShowsOnlyLatest ==
    (mloads = {} /\ mp.open /\ (\E r \in mp.scene : r.id = mopens))
        => (mp.scene = {mp.root} /\ mp.root.id = mopens)

\* A card of the running renderGrid call whose job was processed and whose
\* viewer is gone again.
WasEvicted(c) ==
    /\ c[1] = renderToken
    /\ c[2] <= BATCH
    /\ c \notin observed
    /\ ~SeqHas(viewerQueue, c)
    /\ ~SeqHas(activeViewers, c)

\* C35: activeViewers never holds more than MAX_ACTIVE_VIEWERS entries, at
\* most one call of pumpQueue is under way at any time, and a step that
\* processes a job with activeViewers at the cap removes exactly the
\* first-inserted viewer and appends the viewer of the job.
C35_QueueWithinCap ==
    /\ [](Len(activeViewers) <= MAX_ACTIVE_VIEWERS)
    /\ [](BagCardinality(loops) <= 1)
    /\ [][(/\ Len(activeViewers) >= MAX_ACTIVE_VIEWERS
           /\ renderToken' = renderToken
           /\ activeViewers' # activeViewers)
          => \E job \in SeqSet(viewerQueue) \cup observed :
                 activeViewers' = Tail(activeViewers) \o <<job>>]_vars

\* The cap is reached, a job was processed at the cap (the first card of
\* the grid lost its viewer to it), and the call of pumpQueue is suspended
\* at its timer.
C35_Witness ==
    /\ Len(activeViewers) = MAX_ACTIVE_VIEWERS
    /\ pumping
    /\ BagIn("stagger", loops)
    /\ WasEvicted(CreateCard(renderToken, 1))

\* C36: no step adds to activeViewers a card built by an earlier call of
\* renderGrid than the most recent one.
C36_NoViewerForPreviousGeneration ==
    [][\A c \in SeqSet(activeViewers') \ SeqSet(activeViewers) :
          c[1] = renderToken']_vars

====
